---- MODULE Spec2Model ----
(***************************************************************************)
(* Model of dmatuteb/scanner: the scan-classify-deduplicate-record loop.   *)
(* The repository holds two variants of the program:                       *)
(*   "main"     src/main.go          (records keyed by path; an existence- *)
(*                                    check or walker error ends the cycle)*)
(*   "part_000" src/unnamed/part_000 (records keyed by file name; such     *)
(*                                    errors skip the entry; a failed rule *)
(*                                    query ends the process)              *)
(* Strings are sequences of one-character strings, so that lower-casing    *)
(* and prefix tests are computed rather than assumed.                      *)
(***************************************************************************)
EXTENDS Integers, Sequences, FiniteSets, Bags, TLC

VARIABLES
    variant,     \* which of the two source files runs
    pc,          \* "sleep" (time.Sleep in main's loop), "walk", "exited"
    ruleTable,   \* rows of the file-type rule table (persistent store)
    files,       \* rows of the file table (persistent store), a bag
    recorded,    \* history: the paths whose insert succeeded, a bag
    missed,      \* history: the unrecorded paths skipped for lack of a rule
    partial,     \* history: the paths inserted since a walk last ran to its end
    tree,        \* entries of the watched directory tree
    typeMap,     \* typeMap of the running cycle (prefix -> id)
    idx,         \* number of entries the walker has already yielded
    ret,         \* what the last scanAndStoreFiles returned
    last,        \* the lines the last loop iteration of this cycle wrote
    rulesAtLoad, \* history: the rule table as read by this cycle's load
    failed,      \* history: the failures and edits of this cycle so far
    stable,      \* history: consecutive clean cycles over unchanged inputs
    cname,       \* classifier check: the filename
    cpc,         \* classifier check: "load", "match"
    cresults     \* classifier check: <<typeMap, result>> of the calls so far

vars == <<variant, pc, ruleTable, files, recorded, missed, partial, tree, typeMap,
          idx, ret, last, rulesAtLoad, failed, stable, cname, cpc, cresults>>

scanVars == <<variant, pc, files, recorded, missed, partial, tree, idx, ret, last,
              rulesAtLoad, failed, stable>>
classVars == <<cname, cpc, cresults>>

(***************************************************************************)
(* Bounds of the model.                                                    *)
(***************************************************************************)
MaxRules == 2        \* rows in the rule table
MaxStable == 2       \* cap of the counter of consecutive clean cycles
MaxRecords == 4      \* cap on rows of the file table

(***************************************************************************)
(* Strings.                                                                *)
(***************************************************************************)
Chars == {"a", "b", "A", "B"}

\* strings.ToLower on one character
LowerChar(c) == CASE c = "A" -> "a" [] c = "B" -> "b" [] OTHER -> c

\* strings.ToLower
ToLower(s) == [i \in 1..Len(s) |-> LowerChar(s[i])]

\* fault injection: strings.Contains where strings.HasPrefix is meant
HasPrefix_contains(s, p) ==
    \E k \in 0..(Len(s) - Len(p)) : SubSeq(s, k + 1, k + Len(p)) = p

\* strings.HasPrefix
HasPrefix(s, p) == Len(p) =< Len(s) /\ SubSeq(s, 1, Len(p)) = p

Orderings(S) ==
    {p \in [1..Cardinality(S) -> S] : \A i, j \in DOMAIN p : i # j => p[i] # p[j]}

Min(S) == CHOOSE x \in S : \A y \in S : x =< y

(***************************************************************************)
(* Type-Rule Loader.  A row of the rule table is [prefix, id, ok]; ok is   *)
(* FALSE for a row that rows.Scan cannot read.                             *)
(***************************************************************************)
TypeIDs == 0..2

\* typeMap[strings.ToLower(prefix)] = id
MapPut(m, k, v) == [x \in DOMAIN m \cup {k} |-> IF x = k THEN v ELSE m[x]]

EmptyMap == [x \in {} |-> 0]

\* fault injection: a row that cannot be read ends the loading
RECURSIVE LoadRows_stopAtBadRow(_, _)
LoadRows_stopAtBadRow(rows, m) ==
    IF rows = <<>> THEN m
    ELSE LET row == Head(rows)
         IN IF row.ok
            THEN LoadRows_stopAtBadRow(Tail(rows), MapPut(m, ToLower(row.prefix), row.id))
            ELSE m

\* the rows.Next() loop over the rows in the order the query returned them
RECURSIVE LoadRows(_, _)
LoadRows(rows, m) ==
    IF rows = <<>> THEN m
    ELSE LET row == Head(rows)
         IN LoadRows(Tail(rows),
                     IF row.ok THEN MapPut(m, ToLower(row.prefix), row.id) ELSE m)

\* SELECT without ORDER BY: the rows come back in an order the store chooses
QueryRows(table) == Orderings(table)

\* every map loadTypePrefixMap can return for a rule table
loadTypePrefixMap(table) == {LoadRows(rows, EmptyMap) : rows \in QueryRows(table)}

(***************************************************************************)
(* Prefix Classifier.                                                      *)
(***************************************************************************)
NoMatch == 0

\* fault injection: the prefixes are sorted shortest first
LenGreater_shorterFirst(a, b) == Len(a) < Len(b)

\* the less function handed to sort.Slice
LenGreater(a, b) == Len(a) > Len(b)

\* every slice that map iteration followed by the non-stable sort.Slice can
\* leave: the keys in an order that never puts b before a when less(a, b)
SortedPrefixes(keys) ==
    {p \in Orderings(keys) :
        \A i, j \in DOMAIN p : i < j => ~LenGreater(p[j], p[i])}

\* fault injection: a prefix whose id is 0 is passed over
MatchLoop_skipZero(filename, m, prefixes) ==
    LET hits == {i \in DOMAIN prefixes :
                    HasPrefix(filename, prefixes[i]) /\ m[prefixes[i]] # 0}
    IN IF hits = {} THEN NoMatch ELSE m[prefixes[Min(hits)]]

\* the loop over the sorted prefixes: the first one that is a prefix wins
MatchLoop(filename, m, prefixes) ==
    LET hits == {i \in DOMAIN prefixes : HasPrefix(filename, prefixes[i])}
    IN IF hits = {} THEN NoMatch ELSE m[prefixes[Min(hits)]]

\* fault injection: the filename is not lower-cased
matchPrefixToTypeID_noLower(filename, m) ==
    {MatchLoop(filename, m, p) : p \in SortedPrefixes(DOMAIN m)}

\* every value matchPrefixToTypeID can return for a filename and a map
matchPrefixToTypeID(filename, m) ==
    {MatchLoop(ToLower(filename), m, p) : p \in SortedPrefixes(DOMAIN m)}

\* the loop of matchPrefixToTypeID finds no key of m that is a prefix
NoRuleFor(filename, m) ==
    \A p \in DOMAIN m : ~HasPrefix(ToLower(filename), p)

(***************************************************************************)
(* The watched tree.  An entry is what the walker yields: its path (the    *)
(* sequence of names from the root), isDir, size and modTime.              *)
(***************************************************************************)
Root  == [path |-> <<>>, isDir |-> TRUE, size |-> 0, modTime |-> 0]
DirAB == [path |-> << <<"a", "b">> >>, isDir |-> TRUE, size |-> 0, modTime |-> 1]
FileTop == [path |-> << <<"A", "b">> >>, isDir |-> FALSE, size |-> 1, modTime |-> 1]
FileSub == [path |-> << <<"a", "b">>, <<"A", "b">> >>, isDir |-> FALSE,
            size |-> 2, modTime |-> 2]
\* FileTop after it has been written again: same path, new size and time
FileTopNew == [path |-> << <<"A", "b">> >>, isDir |-> FALSE, size |-> 3, modTime |-> 3]

\* the order in which the walker yields the entries: depth first, a directory
\* before its children, the names of one directory in byte order
UniverseOrder == <<Root, FileTop, FileTopNew, DirAB, FileSub>>

Universe == {UniverseOrder[i] : i \in DOMAIN UniverseOrder}

\* fi.Name(): the last element of the path
Name(e) == e.path[Len(e.path)]

IsUnder(e, d) == Len(e.path) > Len(d.path) /\ SubSeq(e.path, 1, Len(d.path)) = d.path

ValidTrees ==
    {t \in SUBSET Universe :
        /\ Root \in t
        /\ \A e \in t : \A d \in Universe : (d.isDir /\ IsUnder(e, d)) => d \in t
        /\ \A e1, e2 \in t : e1.path = e2.path => e1 = e2}

\* sftpClient.Walk(remoteDir): the entries of the tree in walk order
WalkOrder(t) == SelectSeq(UniverseOrder, LAMBDA e : e \in t)

\* entries the walker does not yield once reading directory d has failed
Descendants(t, d) == {e \in t : IsUnder(e, d)}

(***************************************************************************)
(* The rule rows the scan model edits the rule table with.                 *)
(***************************************************************************)
Rule(p, i, k) == [prefix |-> p, id |-> i, ok |-> k]

ScanRuleRows ==
    { Rule(<<"a">>, 1, TRUE), Rule(<<"a", "b">>, 2, TRUE),
      Rule(<<"A", "b">>, 0, TRUE), Rule(<<"b">>, 1, TRUE),
      Rule(<<"a">>, 2, FALSE) }

ScanTables == {t \in SUBSET ScanRuleRows : Cardinality(t) =< MaxRules}

(***************************************************************************)
(* The file table.  A row is [name, path, size, modTime, typeID]; a column *)
(* an INSERT does not name is left at its null value.                      *)
(***************************************************************************)
NullPath == << <<"-">> >>

Row(n, p, s, t, id) == [name |-> n, path |-> p, size |-> s, modTime |-> t, typeID |-> id]

\* SELECT COUNT(1) FROM files WHERE path = :1
CountByPath(fs, path) ==
    LET hit == {r \in BagToSet(fs) : r.path = path}
    IN IF hit = {} THEN 0 ELSE BagCardinality([r \in hit |-> fs[r]])

\* SELECT COUNT(1) ... WHERE ARCHIVO = :1
CountByName(fs, name) ==
    LET hit == {r \in BagToSet(fs) : r.name = name}
    IN IF hit = {} THEN 0 ELSE BagCardinality([r \in hit |-> fs[r]])

\* fault injection: a failed query is read as "does not exist"
fileExistsInDB_misread(fs, path, qok) ==
    [exists |-> qok /\ CountByPath(fs, path) > 0, err |-> FALSE]

\* fault injection: the count is never above zero
fileExistsInDB_neverPresent(fs, path, qok) == [exists |-> FALSE, err |-> ~qok]

\* fileExistsInDB of main.go: (false, err) when the query fails
fileExistsInDB(fs, path, qok) ==
    IF ~qok THEN [exists |-> FALSE, err |-> TRUE]
    ELSE [exists |-> CountByPath(fs, path) > 0, err |-> FALSE]

\* fault injection: a failed query is read as "does not exist"
fileExistsInDBAlt_misread(fs, name, qok) ==
    [exists |-> qok /\ CountByName(fs, name) > 0, err |-> FALSE]

\* fileExistsInDB of part_000: exists stays 0 when the query fails
fileExistsInDBAlt(fs, name, qok) ==
    [exists |-> IF qok THEN CountByName(fs, name) > 0 ELSE FALSE, err |-> ~qok]

\* fault injection: the INSERT replaces the rows of the same file name
insertFile_replace(fs, name, path, size, modTime, typeID, iok) ==
    IF iok
    THEN [r \in {x \in BagToSet(fs) : x.name # name} |-> fs[r]]
            (+) SetToBag({Row(name, path, size, modTime, typeID)})
    ELSE fs

\* insertFile of main.go: one INSERT; a failure is logged and adds no row
insertFile(fs, name, path, size, modTime, typeID, iok) ==
    IF iok THEN fs (+) SetToBag({Row(name, path, size, modTime, typeID)}) ELSE fs

\* insertFile of part_000: ARCHIVO, ID_TIPO_ARCHIVO_REPROCESO, TIEMPO_REGISTRO
insertFileAlt(fs, name, modTime, typeID, iok) ==
    IF iok THEN fs (+) SetToBag({Row(name, NullPath, 0, modTime, typeID)}) ELSE fs

(***************************************************************************)
(* The polling loop of main and scanAndStoreFiles, one action per loop     *)
(* iteration; the store and the walker decide qok, iok and werr.           *)
(***************************************************************************)
Variants == {"main", "part_000"}

Failure(k, p) == [kind |-> k, path |-> p]

Init ==
    /\ variant \in Variants
    /\ pc = "sleep"
    /\ ruleTable \in ScanTables
    /\ files = EmptyBag
    /\ recorded = EmptyBag
    /\ missed = {}
    /\ partial = {}
    /\ tree \in ValidTrees
    /\ typeMap = EmptyMap
    /\ idx = 0
    /\ ret = "none"
    /\ last = {}
    /\ rulesAtLoad = {}
    /\ failed = {}
    /\ stable = 0
    /\ cname = <<>>
    /\ cpc = "off"
    /\ cresults = {}

\* scanAndStoreFiles returns r to the loop of main, which logs it and sleeps;
\* typeMap is a local of scanAndStoreFiles and is gone
Return(r) ==
    /\ pc' = "sleep"
    /\ typeMap' = EmptyMap
    /\ rulesAtLoad' = {}
    /\ ret' = r
    /\ last' = {}
    /\ failed' = {}
    /\ stable' = IF r = "nil" /\ failed = {} /\ stable < MaxStable
                 THEN stable + 1
                 ELSE IF r = "nil" /\ failed = {} THEN stable ELSE 0

\* fault injection: a failure in the loop body ends the cycle
Continue_abortOnFailure(n, lines, fail) ==
    IF fail # {}
    THEN Return("insertErr") /\ UNCHANGED idx
    ELSE /\ idx' = idx + 1 + n
         /\ last' = lines
         /\ failed' = failed
         /\ UNCHANGED <<pc, ret, stable, typeMap, rulesAtLoad>>

\* the loop body goes on to the next entry, having skipped n entries more
Continue(n, lines, fail) ==
    /\ idx' = idx + 1 + n
    /\ last' = lines
    /\ failed' = failed \cup fail
    /\ UNCHANGED <<pc, ret, stable, typeMap, rulesAtLoad>>

\* main.go: the call of loadTypePrefixMap at the head of scanAndStoreFiles
StartCycle ==
    /\ variant = "main" /\ pc = "sleep"
    /\ \E qok \in BOOLEAN :
        IF qok
        THEN /\ typeMap' \in loadTypePrefixMap(ruleTable)
             /\ rulesAtLoad' = ruleTable
             /\ pc' = "walk" /\ idx' = 0 /\ ret' = "none"
             /\ UNCHANGED <<last, failed, stable>>
        ELSE /\ ret' = "rulesErr" /\ stable' = 0
             /\ UNCHANGED <<pc, typeMap, rulesAtLoad, idx, last, failed>>
    /\ UNCHANGED <<variant, ruleTable, files, recorded, missed, partial, tree>>
    /\ UNCHANGED classVars

\* part_000: loadTypePrefixMap ends the process (log.Fatalf) when the query fails
StartCycleAlt ==
    /\ variant = "part_000" /\ pc = "sleep"
    /\ \E qok \in BOOLEAN :
        IF qok
        THEN /\ typeMap' \in loadTypePrefixMap(ruleTable)
             /\ rulesAtLoad' = ruleTable
             /\ pc' = "walk" /\ idx' = 0 /\ ret' = "none"
             /\ UNCHANGED <<last, failed, stable>>
        ELSE /\ pc' = "exited" /\ stable' = 0
             /\ UNCHANGED <<ret, typeMap, rulesAtLoad, idx, last, failed>>
    /\ UNCHANGED <<variant, ruleTable, files, recorded, missed, partial, tree>>
    /\ UNCHANGED classVars

\* main.go: one iteration of the for walker.Step() loop
StepMain ==
    /\ variant = "main" /\ pc = "walk" /\ idx < Len(WalkOrder(tree))
    /\ LET e == WalkOrder(tree)[idx + 1] IN
       \/ /\ Return("walkErr")                       \* walker.Err() != nil
          /\ UNCHANGED <<files, recorded, missed, partial, idx>>
       \/ /\ e.isDir
          /\ Continue(0, {}, {})
          /\ UNCHANGED <<files, recorded, missed, partial>>
       \/ /\ ~e.isDir
          /\ \E qok \in BOOLEAN :
              LET chk == fileExistsInDB(files, e.path, qok) IN
              IF chk.err
              THEN Return("existsErr") /\ UNCHANGED <<files, recorded, missed, partial, idx>>
              ELSE IF chk.exists
              THEN Continue(0, {}, {}) /\ UNCHANGED <<files, recorded, missed, partial>>
              ELSE \E typeID \in matchPrefixToTypeID(Name(e), typeMap) :
                     IF typeID = 0
                     THEN /\ Continue(0, {"noMatch"}, {})
                          /\ missed' = IF NoRuleFor(Name(e), typeMap)
                                       THEN missed \cup {e.path} ELSE missed
                          /\ UNCHANGED <<files, recorded, partial>>
                     ELSE \E iok \in BOOLEAN :
                            /\ BagCardinality(files) < MaxRecords
                            /\ files' = insertFile(files, Name(e), e.path, e.size,
                                                   e.modTime, typeID, iok)
                            /\ recorded' = IF iok
                                            THEN recorded (+) SetToBag({e.path})
                                            ELSE recorded
                            /\ missed' = IF iok THEN missed \ {e.path} ELSE missed
                            /\ partial' = IF iok THEN partial \cup {e.path} ELSE partial
                            /\ Continue(0,
                                   IF iok THEN {"Insertado"}
                                   ELSE {"insertErr", "Insertado"},
                                   IF iok THEN {}
                                   ELSE {Failure("insert", e.path)})
    /\ UNCHANGED <<variant, ruleTable, tree>>
    /\ UNCHANGED classVars

\* part_000: one iteration of the for walker.Step() loop
StepAlt ==
    /\ variant = "part_000" /\ pc = "walk" /\ idx < Len(WalkOrder(tree))
    /\ LET e == WalkOrder(tree)[idx + 1] IN
       \/ /\ Continue(Cardinality(Descendants(tree, e)), {"walkErr"},
                      {Failure("walk", e.path)})     \* walker.Err() != nil
          /\ UNCHANGED <<files, recorded, missed, partial>>
       \/ /\ e.isDir
          /\ Continue(0, {}, {})
          /\ UNCHANGED <<files, recorded, missed, partial>>
       \/ /\ ~e.isDir
          /\ \E qok \in BOOLEAN :
              LET chk == fileExistsInDBAlt(files, Name(e), qok) IN
              IF chk.err
              THEN Continue(0, {"existsErr"}, {Failure("exists", e.path)})
                   /\ UNCHANGED <<files, recorded, missed, partial>>
              ELSE IF chk.exists
              THEN Continue(0, {}, {}) /\ UNCHANGED <<files, recorded, missed, partial>>
              ELSE \E typeID \in matchPrefixToTypeID(Name(e), typeMap) :
                     IF typeID = 0
                     THEN /\ Continue(0, {"noMatch"}, {})
                          /\ missed' = IF NoRuleFor(Name(e), typeMap)
                                       THEN missed \cup {e.path} ELSE missed
                          /\ UNCHANGED <<files, recorded, partial>>
                     ELSE \E iok \in BOOLEAN :
                            /\ BagCardinality(files) < MaxRecords
                            /\ files' = insertFileAlt(files, Name(e), e.modTime,
                                                      typeID, iok)
                            /\ recorded' = IF iok
                                            THEN recorded (+) SetToBag({e.path})
                                            ELSE recorded
                            /\ missed' = IF iok THEN missed \ {e.path} ELSE missed
                            /\ partial' = IF iok THEN partial \cup {e.path} ELSE partial
                            /\ Continue(0,
                                   IF iok THEN {"Insertado"}
                                   ELSE {"insertErr", "Insertado"},
                                   IF iok THEN {}
                                   ELSE {Failure("insert", e.path)})
    /\ UNCHANGED <<variant, ruleTable, tree>>
    /\ UNCHANGED classVars

\* walker.Step() is false: scanAndStoreFiles returns nil
WalkDone ==
    /\ pc = "walk" /\ idx >= Len(WalkOrder(tree))
    /\ Return("nil")
    /\ partial' = {}
    /\ UNCHANGED <<variant, ruleTable, files, recorded, missed, tree, idx>>
    /\ UNCHANGED classVars

\* environment: one row of the rule table is added or removed, at any time
\* while the poller sleeps and at one moment of a running walk (the walk reads
\* the table at its start only, so one edit stands for any number of them)
EditRules ==
    /\ pc # "exited"
    /\ pc = "walk" => Failure("edit", <<>>) \notin failed
    /\ \E t \in ScanTables :
        /\ Cardinality((t \ ruleTable) \cup (ruleTable \ t)) = 1
        /\ ruleTable' = t
    /\ stable' = 0
    /\ failed' = IF pc = "walk" THEN failed \cup {Failure("edit", <<>>)} ELSE failed
    /\ UNCHANGED <<variant, pc, files, recorded, missed, partial, tree, typeMap, idx,
                   ret, last, rulesAtLoad>>
    /\ UNCHANGED classVars

\* environment: an entry appears, disappears or is written again while the
\* poller sleeps
TreeChange ==
    /\ pc = "sleep"
    /\ \E t \in ValidTrees :
        /\ \/ Cardinality((t \ tree) \cup (tree \ t)) = 1
           \/ /\ {e.path : e \in t} = {e.path : e \in tree}
              /\ Cardinality(t \ tree) = 1
        /\ tree' = t
        /\ missed' = missed \cap {e.path : e \in t}
    /\ stable' = 0
    /\ UNCHANGED <<variant, pc, ruleTable, files, recorded, partial, typeMap, idx, ret,
                   last, rulesAtLoad, failed>>
    /\ UNCHANGED classVars

Next ==
    \/ StartCycle
    \/ StartCycleAlt
    \/ StepMain
    \/ StepAlt
    \/ WalkDone
    \/ EditRules
    \/ TreeChange

Spec == Init /\ [][Next]_vars

(***************************************************************************)
(* The classifier on its own: a rule table and a filename drawn from       *)
(* bounded sets, loaded and matched again and again.                       *)
(***************************************************************************)
ClassPrefixes == {<<>>, <<"a">>, <<"A">>, <<"b">>, <<"a", "b">>, <<"a", "B">>}

ClassRows ==
    {Rule(p, i, TRUE) : p \in ClassPrefixes, i \in TypeIDs}
        \cup {Rule(<<"a">>, 1, FALSE)}

RECURSIVE TablesUpTo(_)
TablesUpTo(k) ==
    IF k = 0 THEN {{}}
    ELSE LET smaller == TablesUpTo(k - 1)
         IN smaller \cup {t \cup {r} : t \in smaller, r \in ClassRows}

ClassNames ==
    {<<"a">>, <<"A">>, <<"b">>, <<"a", "b">>, <<"A", "b">>, <<"b", "a">>,
     <<"a", "B", "a">>}

InitC ==
    /\ ruleTable \in TablesUpTo(MaxRules)
    /\ cname \in ClassNames
    /\ cpc = "load"
    /\ cresults = {}
    /\ typeMap = EmptyMap
    /\ variant = "main"
    /\ pc = "exited"
    /\ files = EmptyBag
    /\ recorded = EmptyBag
    /\ missed = {}
    /\ partial = {}
    /\ tree = {Root}
    /\ idx = 0
    /\ ret = "none"
    /\ last = {}
    /\ rulesAtLoad = {}
    /\ failed = {}
    /\ stable = 0

\* loadTypePrefixMap(db) on the rule table
CLoad ==
    /\ cpc = "load"
    /\ typeMap' \in loadTypePrefixMap(ruleTable)
    /\ cpc' = "match"
    /\ UNCHANGED <<ruleTable, cname, cresults>>
    /\ UNCHANGED scanVars

\* matchPrefixToTypeID(cname, typeMap)
CMatch ==
    /\ cpc = "match"
    /\ \E r \in matchPrefixToTypeID(cname, typeMap) :
        cresults' = cresults \cup {<<typeMap, r>>}
    /\ cpc' = "load"
    /\ UNCHANGED <<ruleTable, cname, typeMap>>
    /\ UNCHANGED scanVars

NextC == CLoad \/ CMatch

SpecClassify == InitC /\ [][NextC]_vars

(***************************************************************************)
(* Properties of the classifier, checked under SpecClassify.               *)
(***************************************************************************)
\* p is a literal prefix of s
IsPrefixOf(p, s) == \E k \in 0..Len(s) : p = SubSeq(s, 1, k)

\* the keys of m that are a literal prefix of the lower-cased filename
MatchingPrefixes(filename, m) == {p \in DOMAIN m : IsPrefixOf(p, ToLower(filename))}

LongestOf(ps) == CHOOSE p \in ps : \A q \in ps : Len(q) =< Len(p)

\* every typeID that loading the table and matching the filename can give
Outcomes(filename, table) ==
    UNION {matchPrefixToTypeID(filename, m) : m \in loadTypePrefixMap(table)}

\* the strings that differ from s in letter case only
CaseVariants(s) == {t \in [1..Len(s) -> Chars] : ToLower(t) = ToLower(s)}

\* the tables that differ from table in the letter case of one stored prefix
RecasedTables(table) ==
    UNION {{(table \ {row}) \cup {Rule(q, row.id, row.ok)} :
                q \in CaseVariants(row.prefix)} : row \in table}

\* no two readable rows whose prefixes are equal up to letter case
NoDuplicatePrefix(table) ==
    \A r1, r2 \in table :
        (r1.ok /\ r2.ok /\ ToLower(r1.prefix) = ToLower(r2.prefix)) => r1 = r2

\* C3 (as claimed): matchPrefixToTypeID returns the typeID of the longest rule
\* prefix that is a prefix of the lower-cased filename, and returns the
\* no-match value only when no rule prefix is a prefix of the filename.
C3_LongestPrefixOrNoMatch ==
    cpc = "match" =>
        \A r \in matchPrefixToTypeID(cname, typeMap) :
            LET ps == MatchingPrefixes(cname, typeMap) IN
            /\ ps # {} => r = typeMap[LongestOf(ps)]
            /\ r = NoMatch => ps = {}

\* C4 (as claimed): for a fixed filename and a fixed rule set every call
\* returns the same typeID, duplicate prefixes in the rule table included.
C4_SameTypeIDOnEveryCall ==
    \A c1, c2 \in cresults : c1[2] = c2[2]

\* C5: classification is case-insensitive on the filename and on the stored
\* prefixes: changing the letter case of the filename or of a stored prefix
\* leaves the typeIDs classification can give unchanged (exactly one typeID
\* when no two rows share a prefix up to case), and every typeID a call has
\* returned is one the re-cased inputs give.
C5_CaseInsensitive ==
    LET here == Outcomes(cname, ruleTable) IN
    /\ \A f \in CaseVariants(cname) : Outcomes(f, ruleTable) = here
    /\ \A t \in RecasedTables(ruleTable) : Outcomes(cname, t) = here
    /\ \A c \in cresults : c[2] \in here
    /\ NoDuplicatePrefix(ruleTable) => Cardinality(here) = 1

\* C5 witness: a stored upper-case prefix has classified a lower-case filename
C5_Witness ==
    \E row \in ruleTable :
        /\ row.ok /\ row.id # NoMatch
        /\ row.prefix # ToLower(row.prefix)
        /\ cname = ToLower(cname)
        /\ IsPrefixOf(ToLower(row.prefix), cname)
        /\ \E c \in cresults : c[2] = row.id

(***************************************************************************)
(* Properties of the scan cycle, checked under Spec.                       *)
(***************************************************************************)
\* the identity column of the file table: path in main.go, ARCHIVO (the
\* file name) in part_000
KeyOfRow(r) == IF variant = "main" THEN r.path ELSE r.name
KeyOfEntry(e) == IF variant = "main" THEN e.path ELSE Name(e)

RowsWithKey(fs, k) ==
    LET hit == {r \in BagToSet(fs) : KeyOfRow(r) = k}
    IN IF hit = {} THEN 0 ELSE BagCardinality([r \in hit |-> fs[r]])

RowsWithPath(fs, p) == CountByPath(fs, p)

FilesOf(t) == {e \in t : ~e.isDir}

\* the entry the next loop iteration handles
Current == WalkOrder(tree)[idx + 1]

\* a loop iteration happens in this step
Stepped == pc = "walk" /\ idx < Len(WalkOrder(tree)) /\ (idx' > idx \/ pc' = "sleep")

\* some readable row of the table has a prefix of the lower-cased name
RuleMatches(name, table) ==
    \E row \in table : row.ok /\ IsPrefixOf(ToLower(row.prefix), ToLower(name))

\* C1: the file table never holds two rows with the same identity, no path
\* is inserted twice, and an insert is only issued for an identity that has
\* no row at that moment (the existence check of the same iteration answered
\* "not present").
C1_UniqueIdentity ==
    /\ [](\A r \in BagToSet(files) : RowsWithKey(files, KeyOfRow(r)) = 1)
    /\ [](\A p \in BagToSet(recorded) : recorded[p] = 1)
    /\ [][(Stepped /\ "Insertado" \in last')
            => RowsWithKey(files, KeyOfEntry(Current)) = 0]_vars

\* C1 witness: in a repeated cycle the existence check has filtered a file
\* that an earlier cycle recorded
C1_Witness ==
    /\ pc = "walk" /\ stable >= 1 /\ idx = 2 /\ last = {}
    /\ FileTop \in tree
    /\ RowsWithKey(files, KeyOfEntry(FileTop)) = 1

\* the files of tree t that the rule table (every way of loading it) or the
\* loaded map m classifies, i.e. gives a typeID other than the no-match value
ClassifiedByTable(t, table) ==
    {e \in FilesOf(t) : NoMatch \notin Outcomes(Name(e), table)}
ClassifiedByMap(t, m) ==
    {e \in FilesOf(t) : NoMatch \notin matchPrefixToTypeID(Name(e), m)}

\* each file of Q has exactly one row, and no two files of Q share theirs
EachHasItsOwnRow(Q) ==
    /\ \A e \in Q : RowsWithKey(files, KeyOfEntry(e)) = 1
    /\ \A e1, e2 \in Q : e1 # e2 => KeyOfEntry(e1) # KeyOfEntry(e2)

\* C2 (as claimed): of two runs over an unchanged tree with an unchanged rule
\* table and no failure, the first leaves each qualifying file (a file the
\* rules classify) inserted exactly once, and the second inserts nothing.
C2_Idempotent ==
    /\ []((pc = "sleep" /\ stable >= 1) =>
            EachHasItsOwnRow(ClassifiedByTable(tree, ruleTable)))
    /\ [][(pc = "walk" /\ stable >= 1 /\ failed = {} /\ failed' = {})
            => files' = files]_vars

\* C6: a file is only recorded by a cycle whose rule table, as read at the
\* cycle's start, holds a readable rule matching its name; an iteration on a
\* file that no such rule matches inserts nothing, and when it reports the
\* file as unmatched the walk goes on with the next entry.
C6_SkipOnNoMatch ==
    /\ [][\A r \in BagToSet(files') :
            (r \notin BagToSet(files) \/ files'[r] > files[r])
                => RuleMatches(r.name, rulesAtLoad)]_vars
    /\ [][(Stepped /\ ~Current.isDir /\ ~RuleMatches(Name(Current), rulesAtLoad))
            => /\ files' = files
               /\ "Insertado" \notin last'
               /\ (failed' = failed /\ pc' = "walk"
                     /\ RowsWithKey(files, KeyOfEntry(Current)) = 0)
                    => (last' = {"noMatch"} /\ idx' = idx + 1)]_vars

\* C6 witness: in a repeated cycle a file that no rule of a non-empty rule
\* table matches has been skipped again, and the walk goes on
C6_Witness ==
    /\ pc = "walk" /\ stable >= 1 /\ last = {"noMatch"} /\ idx = 2
    /\ \E row \in rulesAtLoad : row.ok
    /\ ~RuleMatches(Name(FileTop), rulesAtLoad)
    /\ FileTop \in tree /\ FileSub \in tree
    /\ files = EmptyBag

\* C7 (as claimed): when a walk ends without any failure, the file table holds
\* exactly one row for each path of a non-directory file that the rules
\* classify, two files with the same name and different paths each having
\* their own row, and no row for a directory.
C7_OneRecordPerPath ==
    (pc = "walk" /\ idx = Len(WalkOrder(tree)) /\ failed = {}) =>
        /\ EachHasItsOwnRow(ClassifiedByMap(tree, typeMap))
        /\ \A d \in tree \ FilesOf(tree) :
              /\ RowsWithPath(files, d.path) = 0
              /\ d # Root => \A r \in BagToSet(files) : r.name # Name(d)

\* C8: a failed insert adds no row, does not end the cycle and is not
\* returned as an error: the walk goes on with the next entry, every entry
\* stepped over in a cycle whose only failures are insert failures has been
\* checked, classified and, if new and matched, recorded unless its own
\* insert failed, and such a cycle returns nil.
C8_InsertFailureIsolated ==
    /\ [][(pc = "walk" /\ \E f \in failed' \ failed : f.kind = "insert")
            => (pc' = "walk" /\ idx' = idx + 1 /\ ret' = ret /\ files' = files)]_vars
    /\ []((pc = "walk" /\ \A f \in failed : f.kind = "insert") =>
            \A i \in 1..idx :
                LET e == WalkOrder(tree)[i] IN
                (/\ ~e.isDir
                 /\ NoMatch \notin matchPrefixToTypeID(Name(e), typeMap)
                 /\ [kind |-> "insert", path |-> e.path] \notin failed)
                    => RowsWithKey(files, KeyOfEntry(e)) = 1)
    /\ [][(pc = "walk" /\ pc' = "sleep")
            => IF idx = Len(WalkOrder(tree))
               THEN ret' = "nil"
               ELSE variant = "main" /\ ret' \in {"walkErr", "existsErr"}]_vars

\* C8 witness: the insert of the first file failed and the next file of the
\* same walk has been recorded
C8_Witness ==
    /\ pc = "walk" /\ idx = 4 /\ last = {"Insertado"}
    /\ failed = {[kind |-> "insert", path |-> FileTop.path]}
    /\ RowsWithKey(files, KeyOfEntry(FileSub)) = 1
    /\ variant = "main" => RowsWithPath(files, FileTop.path) = 0

\* C9 (as claimed): when the rule-table query fails at the start of a cycle,
\* the cycle ends with nothing checked or recorded, the failure is returned
\* to the polling loop, and the process keeps running and sleeps until the
\* next cycle.
C9_RuleLoadFailureRecoverable ==
    [][(pc = "sleep" /\ pc' # "walk" /\ tree' = tree /\ ruleTable' = ruleTable)
        => (pc' = "sleep" /\ ret' = "rulesErr" /\ files' = files /\ idx' = idx)]_vars

\* C10: a failed existence check is reported as an error and never read as
\* "does not exist": the iteration inserts nothing and the entry is not
\* handled again in that cycle; the existence check answers false without error only
\* when the file table holds no row for the identity.
C10_ExistenceErrorNotMisread ==
    /\ [](\A e \in FilesOf(Universe) : \A qok \in BOOLEAN :
            LET m == fileExistsInDB(files, e.path, qok)
                a == fileExistsInDBAlt(files, Name(e), qok)
            IN /\ ~qok => (m.err /\ a.err)
               /\ (~m.exists /\ ~m.err) => CountByPath(files, e.path) = 0
               /\ (~a.exists /\ ~a.err) => CountByName(files, Name(e)) = 0)
    /\ [][(Stepped /\ (ret' = "existsErr" \/ "existsErr" \in last'))
            => (files' = files /\ "Insertado" \notin last')]_vars
    /\ [][Stepped => [kind |-> "exists", path |-> Current.path] \notin failed]_vars

\* C10 witness: the existence check of a new, matched file has failed, the
\* error has come back from scanAndStoreFiles and the file is not recorded
C10_Witness ==
    /\ pc = "sleep" /\ ret = "existsErr"
    /\ tree = {Root, FileTop}
    /\ RuleMatches(Name(FileTop), ruleTable)
    /\ files = EmptyBag

\* the existence check of this loop iteration fails
ExistsCheckFails == Stepped /\ (ret' = "existsErr" \/ "existsErr" \in last')

\* C11 (as claimed): when the existence check fails for one file, only that
\* file is skipped and the cycle continues: the walk goes on with the next
\* entry, and every entry stepped over in a cycle whose only failures are
\* existence-check failures has been checked, classified and, if new and
\* matched, recorded unless its own check failed.
C11_ExistenceErrorSkipsOneFile ==
    /\ [][ExistsCheckFails
            => (pc' = "walk" /\ idx' = idx + 1 /\ ret' = ret /\ files' = files)]_vars
    /\ []((pc = "walk" /\ \A f \in failed : f.kind = "exists") =>
            \A i \in 1..idx :
                LET e == WalkOrder(tree)[i] IN
                (/\ ~e.isDir
                 /\ NoMatch \notin matchPrefixToTypeID(Name(e), typeMap)
                 /\ [kind |-> "exists", path |-> e.path] \notin failed)
                    => RowsWithKey(files, KeyOfEntry(e)) = 1)

\* the walker reports an enumeration error in this loop iteration
WalkerFails == Stepped /\ (ret' = "walkErr" \/ "walkErr" \in last')

\* C12 (as claimed): when the walker reports an enumeration error, the walk
\* stops there (no later entry is checked or recorded in that cycle), the
\* error is returned to the polling loop, and the process keeps running and
\* sleeps until the next cycle.
C12_WalkerErrorEndsCycle ==
    /\ [][WalkerFails => (pc' = "sleep" /\ ret' = "walkErr" /\ files' = files)]_vars
    /\ [][(Stepped /\ \E f \in failed : f.kind = "walk")
            => (files' = files /\ last' = {})]_vars

\* C13 (as claimed): a loop iteration writes the confirmation line
\* "Insertado: <path> [tipo_id: <id>]" exactly when it has added a row for
\* its entry to the file table, and an iteration that skips a file no rule
\* matches writes the one diagnostic line for it.
C13_OutputMatchesOutcomes ==
    /\ [][Stepped =>
            ("Insertado" \in last'
                <=> /\ BagCardinality(files') = BagCardinality(files) + 1
                    /\ RowsWithKey(files', KeyOfEntry(Current)) = 1)]_vars
    /\ [][(/\ Stepped /\ ~Current.isDir
           /\ ~RuleMatches(Name(Current), rulesAtLoad)
           /\ failed' = failed /\ pc' = "walk"
           /\ RowsWithKey(files, KeyOfEntry(Current)) = 0)
            => last' = {"noMatch"}]_vars

\* m holds exactly the readable rows of the table, keyed by lower-cased prefix
LoadedFrom(m, table) ==
    /\ DOMAIN m = {ToLower(row.prefix) : row \in {r \in table : r.ok}}
    /\ \A k \in DOMAIN m :
          \E row \in table : row.ok /\ ToLower(row.prefix) = k /\ row.id = m[k]

\* the walk has yielded every entry and no failure or edit has happened
CleanWalkEnd == pc = "walk" /\ idx = Len(WalkOrder(tree)) /\ failed = {}

\* C14 (as claimed): every cycle classifies with the rule table as read at its
\* own start: the map of a cycle is loaded from the table at the cycle's
\* start and kept to its end, every row a cycle inserts carries the id of a
\* matching rule that was in the table at that start (a removed rule is not
\* used), and a file left unrecorded for lack of a matching rule is recorded
\* by the end of a failure-free cycle whose table holds a matching rule.
C14_RulesReloadedEveryCycle ==
    /\ [][(pc = "sleep" /\ pc' = "walk")
            => (LoadedFrom(typeMap', ruleTable) /\ rulesAtLoad' = ruleTable)]_vars
    /\ [][(pc = "walk" /\ pc' = "walk") => typeMap' = typeMap]_vars
    /\ [][\A r \in BagToSet(files') :
            (r \notin BagToSet(files) \/ files'[r] > files[r])
                => \E row \in rulesAtLoad :
                      /\ row.ok /\ row.id = r.typeID
                      /\ IsPrefixOf(ToLower(row.prefix), ToLower(r.name))]_vars
    /\ [](CleanWalkEnd =>
            \A e \in FilesOf(tree) :
                (e.path \in missed /\ RuleMatches(Name(e), rulesAtLoad))
                    => RowsWithKey(files, KeyOfEntry(e)) = 1)

\* the rows of the table that rows.Scan can read
ReadableRows(table) == {row \in table : row.ok}

\* C15: when a row of the rule table cannot be read, the load still succeeds
\* and the map holds every readable row (and nothing else), and the cycle
\* classifies with those rules: every entry stepped over in a cycle without
\* failures that the readable rows classify has been recorded.
C15_PartialRuleLoad ==
    /\ [][(pc = "sleep" /\ pc' = "walk" /\ ReadableRows(ruleTable) # ruleTable)
            => /\ LoadedFrom(typeMap', ReadableRows(ruleTable))
               /\ \A row \in ReadableRows(ruleTable) :
                     ToLower(row.prefix) \in DOMAIN typeMap']_vars
    /\ []((pc = "walk" /\ failed = {} /\ ReadableRows(rulesAtLoad) # rulesAtLoad) =>
            \A i \in 1..idx :
                LET e == WalkOrder(tree)[i] IN
                (~e.isDir /\ NoMatch \notin Outcomes(Name(e), ReadableRows(rulesAtLoad)))
                    => RowsWithKey(files, KeyOfEntry(e)) = 1)

\* C15 witness: the table of the running cycle holds a row that cannot be
\* read and a readable row, and the readable row has classified a file that
\* this cycle recorded
C15_Witness ==
    /\ pc = "walk" /\ idx = 2 /\ last = {"Insertado"} /\ failed = {}
    /\ rulesAtLoad = {Rule(<<"a">>, 2, FALSE), Rule(<<"a">>, 1, TRUE)}
    /\ FileTop \in tree
    /\ \E r \in BagToSet(files) : r.name = Name(FileTop) /\ r.typeID = 1

(***************************************************************************)
(* The polling loop under fairness: the loop keeps running, the tree and   *)
(* the rule table stay as they are, and a store operation that is tried    *)
(* again and again eventually succeeds.                                    *)
(***************************************************************************)
\* the rule-table query of a cycle succeeds
LoadOK == (StartCycle \/ StartCycleAlt) /\ pc' = "walk"

\* the loop iteration on the i-th entry runs without any failure
StepOK(i) == (StepMain \/ StepAlt) /\ idx = i /\ pc' = "walk" /\ failed' = failed

NextFair == StartCycle \/ StartCycleAlt \/ StepMain \/ StepAlt \/ WalkDone

FairSpec ==
    /\ Init /\ [][NextFair]_vars
    /\ WF_vars(LoadOK)
    /\ WF_vars(WalkDone)
    /\ \A i \in 0..(Len(UniverseOrder) - 1) : SF_vars(StepOK(i))

\* the existence check or the insert of file e has failed in this cycle (in
\* main.go the failed check has just ended the cycle)
CheckOrInsertFailed(e) ==
    \/ pc = "walk" /\ Failure("insert", e.path) \in failed
    \/ pc = "walk" /\ Failure("exists", e.path) \in failed
    \/ /\ pc = "sleep" /\ ret = "existsErr"
       /\ idx < Len(WalkOrder(tree)) /\ WalkOrder(tree)[idx + 1] = e

\* C16 (as claimed): within a cycle each file is handled by at most one loop
\* iteration (one existence check, at most one insert attempt); an iteration
\* whose existence check or insert fails records nothing, and every cycle
\* walks the tree from its start again; and, over an unchanged tree and rule
\* table with store operations that eventually succeed, every file whose
\* check or insert failed and whose name a rule matches is eventually
\* recorded, unless the polling loop has stopped running.
C16_RescanEventuallyRecords ==
    /\ [][Stepped => (idx' > idx \/ pc' = "sleep")]_vars
    /\ [](\A i, j \in DOMAIN WalkOrder(tree) :
            i # j => WalkOrder(tree)[i].path # WalkOrder(tree)[j].path)
    /\ [][(Stepped /\ (failed' # failed \/ ret' = "existsErr")) => files' = files]_vars
    /\ [][(pc = "sleep" /\ pc' = "walk") => idx' = 0]_vars
    /\ \A e \in FilesOf(Universe) :
          (CheckOrInsertFailed(e) /\ e \in tree /\ RuleMatches(Name(e), ruleTable))
              ~> (RowsWithKey(files, KeyOfEntry(e)) = 1 \/ pc = "exited")

\* the rows this step adds to the file table
NewRows == {r \in BagToSet(files') : r \notin BagToSet(files) \/ files'[r] > files[r]}

\* C17: every row a cycle inserts carries the id that the longest key of the
\* cycle's map which is a prefix of the lower-cased file name maps to, that
\* map being the one loaded from the rule table at the cycle's start, also
\* when the table has been edited since; a row is only inserted when that id
\* is not the no-match value, so no row of the file table carries it.
C17_TypeIDFromCyclesMap ==
    /\ [][\A r \in NewRows :
            LET ps == MatchingPrefixes(r.name, typeMap) IN
            /\ pc = "walk" /\ r.name = Name(Current)
            /\ LoadedFrom(typeMap, rulesAtLoad)
            /\ ps # {}
            /\ r.typeID = typeMap[LongestOf(ps)]
            /\ r.typeID # NoMatch]_vars
    /\ [](\A r \in BagToSet(files) : r.typeID # NoMatch)

\* C17 witness: the rule that classified the file was removed from the table
\* while the walk was running, and the file has been recorded with that
\* rule's id, the id of the longest of two matching prefixes
C17_Witness ==
    /\ pc = "walk" /\ idx = 2 /\ last = {"Insertado"}
    /\ failed = {Failure("edit", <<>>)}
    /\ rulesAtLoad = {Rule(<<"a">>, 1, TRUE), Rule(<<"a", "b">>, 2, TRUE)}
    /\ ruleTable = {Rule(<<"a">>, 1, TRUE)}
    /\ FileTop \in tree
    /\ \E r \in BagToSet(files) : r.name = Name(FileTop) /\ r.typeID = 2

\* C18: no step updates or deletes a row of the file table: every row is
\* still there after the step, as many times as before, with every column
\* unchanged, whatever the step is (a loop iteration, a return with or
\* without error, a failed rule load, an edit of the rule table, a change of
\* the tree).
C18_AppendOnly ==
    [][\A r \in BagToSet(files) :
          r \in BagToSet(files') /\ files'[r] >= files[r]]_vars

\* C18 witness: the file was written again (new size and time) and its rule
\* was replaced by one with another id, a whole cycle has run over the new
\* tree and rules without failure, and the file table still holds only the
\* row of the first recording
C18_Witness ==
    /\ pc = "sleep" /\ stable >= 1
    /\ FileTopNew \in tree
    /\ ruleTable = {Rule(<<"a", "b">>, 2, TRUE)}
    /\ BagCardinality(files) = 1
    /\ \E r \in BagToSet(files) :
          r.name = Name(FileTop) /\ r.modTime = FileTop.modTime /\ r.typeID = 1

\* the longest key of m that is a prefix of the lower-cased filename maps to
\* the id 0
LongestMatchIsZero(filename, m) ==
    LET ps == MatchingPrefixes(filename, m)
    IN ps # {} /\ m[LongestOf(ps)] = 0

\* a shorter key that is a prefix of the filename maps to another id
ShorterNonZeroMatch(filename, m) ==
    \E p \in MatchingPrefixes(filename, m) :
        m[p] # 0 /\ Len(p) < Len(LongestOf(MatchingPrefixes(filename, m)))

\* C19: when the longest rule prefix matching a file name maps to typeID 0,
\* matchPrefixToTypeID returns 0, whatever shorter rules match, and the loop
\* iteration on that file records nothing and writes no confirmation line;
\* when it is reached with the file not yet present, it skips the file as
\* unclassifiable.
C19_ZeroTypeIDIsNoMatch ==
    /\ [](pc = "walk" =>
            \A e \in FilesOf(Universe) :
                LongestMatchIsZero(Name(e), typeMap)
                    => matchPrefixToTypeID(Name(e), typeMap) = {0})
    /\ [][(Stepped /\ ~Current.isDir /\ LongestMatchIsZero(Name(Current), typeMap))
            => /\ files' = files
               /\ "Insertado" \notin last'
               /\ (failed' = failed /\ pc' = "walk"
                     /\ RowsWithKey(files, KeyOfEntry(Current)) = 0)
                    => (last' = {"noMatch"} /\ idx' = idx + 1)]_vars

\* C19 witness: the map holds "ab" with id 0 and "a" with id 1, and the file
\* "Ab" has been skipped as unclassifiable
C19_Witness ==
    /\ pc = "walk" /\ idx = 2 /\ last = {"noMatch"}
    /\ FileTop \in tree
    /\ LongestMatchIsZero(Name(FileTop), typeMap)
    /\ ShorterNonZeroMatch(Name(FileTop), typeMap)
    /\ files = EmptyBag

\* scanAndStoreFiles returns an error from inside the walk
EarlyEnd == pc = "walk" /\ pc' = "sleep" /\ ret' \in {"existsErr", "walkErr"}

\* C20: a cycle that ends early with an error leaves the file table as it
\* is: the rows it inserted are still there when the next cycles run and the
\* files it did not reach are not recorded by it; no later cycle inserts a
\* file again that a cycle cut short has recorded, a cycle only inserts
\* files that have no row and that its map classifies, and a walk that runs
\* to its end without failure leaves each such file with exactly one row.
C20_NoRollbackOnEarlyEnd ==
    /\ [][EarlyEnd => (files' = files /\ partial' = partial)]_vars
    /\ [](\A e \in FilesOf(Universe) :
            e.path \in partial => RowsWithKey(files, KeyOfEntry(e)) = 1)
    /\ [][\A r \in NewRows :
            /\ Current.path \notin partial
            /\ RowsWithKey(files, KeyOfRow(r)) = 0 /\ files'[r] = 1
            /\ NoMatch \notin matchPrefixToTypeID(r.name, typeMap)]_vars
    /\ [](CleanWalkEnd =>
            \A e \in ClassifiedByMap(tree, typeMap) :
                RowsWithKey(files, KeyOfEntry(e)) = 1)

\* C20 witness: a cycle of main.go recorded the first file with the rule of
\* its time and ended early; the rule was then replaced, and the next cycle
\* has passed the first file without inserting it again and has recorded the
\* second one
C20_Witness ==
    /\ variant = "main" /\ pc = "walk" /\ idx = 4 /\ last = {"Insertado"}
    /\ failed = {}
    /\ rulesAtLoad = {Rule(<<"a", "b">>, 2, TRUE)}
    /\ partial = {FileTop.path, FileSub.path}
    /\ BagCardinality(files) = 2
    /\ \E r \in BagToSet(files) : r.path = FileTop.path /\ r.typeID = 1
    /\ \E r \in BagToSet(files) : r.path = FileSub.path /\ r.typeID = 2

====
